---- MODULE Spec2Model ----
(***************************************************************************)
(* Product catalogue synchronised with a remote payment provider.          *)
(*                                                                         *)
(* The model follows one product row of the catalogue through admin saves, *)
(* the sync-all command, webhook deliveries and deletes, together with the *)
(* provider's Product and Price objects.  Every handler is one action: the *)
(* Python control flow (early returns, try/except) is followed by          *)
(* operators over a context record `c` that carries the database row, the  *)
(* provider's objects, the in-memory instance and the pending exception.   *)
(*                                                                         *)
(* A second specification, SpecWebhook, delivers webhook requests beside   *)
(* admin saves; a third, SpecCache, interleaves the steps of               *)
(* product_filters_api with the steps of Product.save and Product.delete.  *)
(*                                                                         *)
(* The properties speak of runs: a run is one execution of a handler from  *)
(* the current state, with the instance it was handed and the context at   *)
(* its end.  The actions take exactly these runs.                          *)
(***************************************************************************)
EXTENDS Integers, Sequences, FiniteSets, TLC

VARIABLES
    settings,        \* STRIPE_SECRET_KEY, STRIPE_WEBHOOK_SECRET: configured or not
    db,              \* the row of the product table
    nextPk,          \* the next primary key of the table
    stripeProducts,  \* the provider's Product objects, by id
    stripePrices,    \* the provider's Price objects, by id
    stripeSessions,  \* the provider's checkout Sessions, by id
    cache,           \* the cache entry 'product_filters'
    now,             \* the clock
    reader,          \* a product_filters_api request in progress
    writer,          \* a Product.save or Product.delete in progress
    products         \* the name and slug columns of the product table, by pk

vars == <<settings, db, nextPk, stripeProducts, stripePrices, stripeSessions,
          cache, now, reader, writer, products>>

----------------------------------------------------------------------------
\* bounds

MaxPk == 1              \* rows ever inserted
MaxRemoteProducts == 1  \* Product objects ever created at the provider
MaxRemotePrices == 2    \* Price objects ever created at the provider
MaxSessions == 2        \* checkout Sessions ever created at the provider
MaxClock == 2           \* readings of timezone.now()
MaxReentry == 2         \* nested calls of create_or_update_product
MaxRows == 3            \* rows ever inserted into the table of names and slugs

----------------------------------------------------------------------------
\* values

\* a blank CharField: stripe_product_id, stripe_price_id (blank=True)
Empty == 0
\* a stripe_price_id the provider does not know
Bogus == MaxRemotePrices + 1
\* a null DateTimeField
Null == 0
\* instance.pk of an unsaved instance
NoPk == 0

ACTIVE == "active"
INACTIVE == "inactive"
SOLD == "sold"
ProductStatus == {ACTIVE, INACTIVE, SOLD}

\* instance._old_status: the attribute does not exist / is None
Unset == "unset"
None == "none"

\* prices in grosze: 0.29 zl is one of the values float() truncates
Prices == {29, 100}

\* przeznaczenie_ogolne: a choice, or blank
Przeznaczenie == {"kolczyki_para", "na_szyje"}
Blank == ""

\* cache.get('product_filters') is None
NoCache == [hit |-> FALSE, data |-> {}]

\* exceptions
NoExc == "ok"
StripeError == "StripeError"
InvalidRequestError == "InvalidRequestError"
GenericError == "Exception"
ValueError == "ValueError"
AttributeError == "AttributeError"
DatabaseError == "DatabaseError"
IntegrityError == "IntegrityError"
RecursionError == "RecursionError"

----------------------------------------------------------------------------
\* records

\* the table without the row
NoRow ==
    [exists |-> FALSE, pk |-> NoPk, status |-> INACTIVE, active |-> FALSE,
     price |-> 100, sold_at |-> Null, stripe_product_id |-> Empty,
     stripe_price_id |-> Empty, przeznaczenie_ogolne |-> Blank]

\* the columns of the row that the model follows
Fields ==
    {"status", "active", "price", "sold_at", "stripe_product_id",
     "stripe_price_id", "przeznaczenie_ogolne"}

\* Product(...): an unsaved instance with the field defaults
NewInstance(status, price) ==
    [pk |-> NoPk, status |-> status, active |-> TRUE, price |-> price,
     sold_at |-> Null, stripe_product_id |-> Empty, stripe_price_id |-> Empty,
     przeznaczenie_ogolne |-> Blank, old_status |-> Unset,
     skip_stripe_sync |-> FALSE]

\* Product.objects.get(pk=...): a fresh instance of the stored row
FromDb(row) ==
    [pk |-> row.pk, status |-> row.status, active |-> row.active,
     price |-> row.price, sold_at |-> row.sold_at,
     stripe_product_id |-> row.stripe_product_id,
     stripe_price_id |-> row.stripe_price_id,
     przeznaczenie_ogolne |-> row.przeznaczenie_ogolne,
     old_status |-> Unset, skip_stripe_sync |-> FALSE]

\* the environment's faults during one handler: the remote-th call to the
\* provider fails with `kind`, or the db-th write to the table fails
NoFaults == [remote |-> 0, kind |-> StripeError, db |-> 0]
Faults(remote_calls, db_writes) ==
    {NoFaults}
    \cup {[remote |-> k, kind |-> e, db |-> 0] :
            k \in 1..remote_calls, e \in {StripeError, GenericError}}
    \cup {[remote |-> 0, kind |-> StripeError, db |-> k] : k \in 1..db_writes}

\* the context of a handler: the state it works on, the instance it holds,
\* the exception in flight and the counters of what it has done so far
Context(i, fx) ==
    [settings |-> settings, db |-> db, nextPk |-> nextPk, sp |-> stripeProducts,
     pr |-> stripePrices, ss |-> stripeSessions, cache |-> cache, now |-> now,
     inst |-> i, fx |-> fx,
     nr |-> 0, nd |-> 0, exc |-> NoExc, ret |-> 0, success |-> FALSE,
     created |-> FALSE, wrote |-> FALSE, early |-> FALSE,
     nfailed |-> 0, nrecovered |-> 0, dbfailed |-> FALSE,
     ncou |-> 0, ndeact |-> 0, cou |-> "none", newPrices |-> 0]

----------------------------------------------------------------------------
\* control flow

\* raise e
Raise(c, e) == [c EXCEPT !.exc = e]

\* F applied to the value of v
Bind(v, F(_)) == CHOOSE r \in {F(x) : x \in {v}} : TRUE

\* the statement F after c: skipped while an exception is in flight
Then(c, F(_)) == Bind(c, LAMBDA x : IF x.exc # NoExc THEN x ELSE F(x))

----------------------------------------------------------------------------
\* the provider's API (stripe.Product, stripe.Price)

\* the call that the environment makes fail
Hit(c) == c.fx.remote = c.nr + 1

\* a call to the provider that raises e; `early` records a call made before
\* the handler wrote the row
Fail(c, e) ==
    [c EXCEPT !.nr = @ + 1, !.early = @ \/ ~c.wrote, !.exc = e,
              !.nfailed = @ + 1]

\* stripe.Product.create(active=..., metadata={'wagtail_id': ...})
Product_create(c, active, wagtail_id) ==
    IF Hit(c) THEN Fail(c, c.fx.kind)
    ELSE [c EXCEPT !.nr = @ + 1, !.early = @ \/ ~c.wrote,
                   !.sp = Append(@, [active |-> active,
                                     wagtail_id |-> wagtail_id]),
                   !.ret = Len(c.sp) + 1]

\* stripe.Product.modify(id, active=...)
Product_modify(c, id, active) ==
    IF Hit(c) THEN Fail(c, c.fx.kind)
    ELSE IF id \notin DOMAIN c.sp THEN Fail(c, InvalidRequestError)
    ELSE [c EXCEPT !.nr = @ + 1, !.early = @ \/ ~c.wrote,
                   !.sp[id].active = active]

\* stripe.Price.create(product=..., unit_amount=...)
Price_create(c, product, unit_amount) ==
    IF Hit(c) THEN Fail(c, c.fx.kind)
    ELSE [c EXCEPT !.nr = @ + 1, !.early = @ \/ ~c.wrote,
                   !.pr = Append(@, [product |-> product,
                                     unit_amount |-> unit_amount,
                                     active |-> TRUE]),
                   !.ret = Len(c.pr) + 1, !.newPrices = @ + 1]

\* stripe.Price.retrieve(id).unit_amount
Price_retrieve(c, id) ==
    IF Hit(c) THEN Fail(c, c.fx.kind)
    ELSE IF id \notin DOMAIN c.pr THEN Fail(c, InvalidRequestError)
    ELSE [c EXCEPT !.nr = @ + 1, !.early = @ \/ ~c.wrote,
                   !.ret = c.pr[id].unit_amount]

\* stripe.Price.modify(id, active=...)
Price_modify(c, id, active) ==
    IF Hit(c) THEN Fail(c, c.fx.kind)
    ELSE IF id \notin DOMAIN c.pr THEN Fail(c, InvalidRequestError)
    ELSE [c EXCEPT !.nr = @ + 1, !.early = @ \/ ~c.wrote,
                   !.pr[id].active = active]

\* stripe.checkout.Session.create(line_items=[{'price': ...}],
\*                                metadata={'product_id': ...})
Session_create(c, price, product_id) ==
    IF Hit(c) THEN Fail(c, c.fx.kind)
    ELSE IF price \notin DOMAIN c.pr THEN Fail(c, InvalidRequestError)
    ELSE [c EXCEPT !.nr = @ + 1, !.early = @ \/ ~c.wrote,
                   !.ss = Append(@, [price |-> price,
                                     product_id |-> product_id,
                                     status |-> "open"]),
                   !.ret = Len(c.ss) + 1]

----------------------------------------------------------------------------
\* stripe_sync.py: StripeSync

\* the hundredths k (below 200) for which int(float(k/100) * 100) is k - 1
FloatTruncated == {29, 57, 58, 113, 114, 115, 116}

\* int(float(price_value) * 100), price_value given in hundredths
_price_to_grosze(price_value) ==
    IF price_value \in FloatTruncated THEN price_value - 1 ELSE price_value

\* create_or_update_product without its `except Exception` clause
CaughtOnlyStripeError(e) == e \in {StripeError, InvalidRequestError}

\* the exceptions the except clauses of create_or_update_product catch:
\* stripe.error.StripeError and Exception
CaughtBySync(e) == TRUE

RECURSIVE ProductSave(_, _)
RECURSIVE sync_product_to_stripe(_, _)
RECURSIVE create_or_update_product(_)

\* the write-back with update_fields=['stripe_product_id']
WriteBackProductIdOnly(c) ==
    ProductSave([c EXCEPT !.inst.skip_stripe_sync = TRUE], {"stripe_product_id"})

\* the write-back without product._skip_stripe_sync = True
WriteBackThroughHook(c) ==
    ProductSave(c, {"stripe_product_id", "stripe_price_id"})

\* product._skip_stripe_sync = True
\* product.save(update_fields=['stripe_product_id', 'stripe_price_id'])
WriteBack(c) ==
    ProductSave([c EXCEPT !.inst.skip_stripe_sync = TRUE],
                {"stripe_product_id", "stripe_price_id"})

\* the is_new branch: Product.create, then Price.create
CreateRemote(c) ==
    Then(Product_create(c, c.inst.status = ACTIVE, c.inst.pk), LAMBDA c1 :
    Then(Price_create([c1 EXCEPT !.inst.stripe_product_id = c1.ret], c1.ret,
                      _price_to_grosze(c1.inst.price)), LAMBDA c2 :
    [c2 EXCEPT !.inst.stripe_price_id = c2.ret]))

\* Price.create for the product, and product.stripe_price_id = its id
ReplacePrice(c, unit_amount) ==
    Then(Price_create(c, c.inst.stripe_product_id, unit_amount), LAMBDA c1 :
    [c1 EXCEPT !.inst.stripe_price_id = c1.ret])

\* the update branch replacing the price whether or not the amount changed
ComparePriceAlways(c, current_price_grosze) ==
    Then(Price_modify(c, c.inst.stripe_price_id, FALSE), LAMBDA c1 :
    ReplacePrice(c1, current_price_grosze))

\* the update branch creating the new price without archiving the old one
ComparePriceNoArchive(c, current_price_grosze) ==
    IF c.ret # current_price_grosze
      THEN ReplacePrice(c, current_price_grosze)
      ELSE c

\* price_changed: archive the old price and create a new one
ComparePrice(c, current_price_grosze) ==
    IF c.ret # current_price_grosze
      THEN Then(Price_modify(c, c.inst.stripe_price_id, FALSE), LAMBDA c1 :
           ReplacePrice(c1, current_price_grosze))
      ELSE c

\* the update branch without `except stripe.error.InvalidRequestError`
UpdateRemoteNoReplacement(c) ==
    Then(Product_modify(c, c.inst.stripe_product_id, c.inst.status = ACTIVE),
         LAMBDA c1 :
    Then(Price_retrieve(c1, c1.inst.stripe_price_id), LAMBDA c2 :
    ComparePrice(c2, _price_to_grosze(c2.inst.price))))

\* the update branch: Product.modify, then the inner try around
\* Price.retrieve, whose InvalidRequestError is answered by a replacement
UpdateRemote(c) ==
    Then(Product_modify(c, c.inst.stripe_product_id, c.inst.status = ACTIVE),
         LAMBDA c1 :
    Bind(Price_retrieve(c1, c1.inst.stripe_price_id), LAMBDA c2 :
    IF c2.exc = InvalidRequestError
      THEN ReplacePrice([c2 EXCEPT !.exc = NoExc, !.nrecovered = @ + 1],
                        _price_to_grosze(c2.inst.price))
    ELSE IF c2.exc # NoExc THEN c2
    ELSE Bind(ComparePrice(c2, _price_to_grosze(c2.inst.price)), LAMBDA c3 :
         IF c3.exc = InvalidRequestError
           THEN ReplacePrice([c3 EXCEPT !.exc = NoExc, !.nrecovered = @ + 1],
                             _price_to_grosze(c3.inst.price))
           ELSE c3)))

\* the try body with a _get_stripe_api_key that does not raise
CreateOrUpdateBodyAnyKey(c) ==
    IF c.ncou > MaxReentry THEN Raise(c, RecursionError)
    ELSE Then(IF c.inst.stripe_product_id = Empty
                THEN CreateRemote(c) ELSE UpdateRemote(c),
              LAMBDA c1 : WriteBack(c1))

\* the try body of create_or_update_product
CreateOrUpdateBody(c) ==
    IF c.ncou > MaxReentry THEN Raise(c, RecursionError)
    ELSE IF ~c.settings.STRIPE_SECRET_KEY THEN Raise(c, ValueError)
    ELSE Then(IF c.inst.stripe_product_id = Empty
                THEN CreateRemote(c) ELSE UpdateRemote(c),
              LAMBDA c1 : WriteBack(c1))

\* StripeSync.create_or_update_product
create_or_update_product(c) ==
    Bind(CreateOrUpdateBody([c EXCEPT !.ncou = @ + 1, !.newPrices = 0]),
         LAMBDA b :
    IF b.exc = NoExc THEN [b EXCEPT !.success = TRUE, !.cou = "success"]
    ELSE IF CaughtBySync(b.exc)
      THEN [b EXCEPT !.exc = NoExc, !.success = FALSE, !.cou = "failure"]
    ELSE [b EXCEPT !.success = FALSE, !.cou = "raised"])

\* deactivate_product without the check of stripe_product_id
deactivate_product_unguarded(c) ==
    Bind(IF ~c.settings.STRIPE_SECRET_KEY
           THEN Raise([c EXCEPT !.ndeact = @ + 1], ValueError)
           ELSE Product_modify([c EXCEPT !.ndeact = @ + 1],
                               c.inst.stripe_product_id, FALSE),
         LAMBDA b :
         IF b.exc = NoExc THEN [b EXCEPT !.success = TRUE]
         ELSE [b EXCEPT !.exc = NoExc, !.success = FALSE])

\* StripeSync.deactivate_product
deactivate_product(c) ==
    IF c.inst.stripe_product_id = Empty
      THEN [c EXCEPT !.ndeact = @ + 1, !.success = FALSE]
      ELSE Bind(IF ~c.settings.STRIPE_SECRET_KEY
                  THEN Raise([c EXCEPT !.ndeact = @ + 1], ValueError)
                  ELSE Product_modify([c EXCEPT !.ndeact = @ + 1],
                                      c.inst.stripe_product_id, FALSE),
                LAMBDA b :
                IF b.exc = NoExc THEN [b EXCEPT !.success = TRUE]
                ELSE [b EXCEPT !.exc = NoExc, !.success = FALSE])

\* mark_as_sold deactivating the remote product before it saves the row
mark_as_sold_remote_first(c) ==
    Bind(IF c.inst.stripe_product_id # Empty THEN deactivate_product(c) ELSE c,
         LAMBDA c1 :
    Bind(ProductSave([c1 EXCEPT !.inst.status = SOLD,
                                !.inst.sold_at = c1.now + 1,
                                !.inst.active = FALSE, !.now = @ + 1],
                     {"status", "sold_at", "active"}), LAMBDA c2 :
    IF c2.exc # NoExc THEN [c2 EXCEPT !.exc = NoExc, !.success = FALSE]
    ELSE [c2 EXCEPT !.success = TRUE]))

\* mark_as_sold returning what the remote deactivation returned
mark_as_sold_remote_result(c) ==
    Bind(ProductSave([c EXCEPT !.inst.status = SOLD,
                               !.inst.sold_at = c.now + 1,
                               !.inst.active = FALSE, !.now = @ + 1],
                     {"status", "sold_at", "active"}), LAMBDA c1 :
    IF c1.exc # NoExc THEN [c1 EXCEPT !.exc = NoExc, !.success = FALSE]
    ELSE deactivate_product(c1))

\* StripeSync.mark_as_sold
mark_as_sold(c) ==
    Bind(ProductSave([c EXCEPT !.inst.status = SOLD,
                               !.inst.sold_at = c.now + 1,
                               !.inst.active = FALSE, !.now = @ + 1],
                     {"status", "sold_at", "active"}), LAMBDA c1 :
    IF c1.exc # NoExc THEN [c1 EXCEPT !.exc = NoExc, !.success = FALSE]
    ELSE Bind(IF c1.inst.stripe_product_id # Empty
                THEN deactivate_product(c1) ELSE c1,
              LAMBDA c2 : [c2 EXCEPT !.success = TRUE]))

\* Product.is_buyable: the status is ACTIVE and a remote price id exists
is_buyable(i) == i.status = ACTIVE /\ i.stripe_price_id # Empty

\* the try of create_checkout_session: the API key, Session.create, and the
\* except clauses for StripeError and Exception
CheckoutSession(c) ==
    Bind(IF ~c.settings.STRIPE_SECRET_KEY THEN Raise(c, ValueError)
         ELSE Session_create(c, c.inst.stripe_price_id, c.inst.pk),
         LAMBDA b :
         IF b.exc = NoExc THEN [b EXCEPT !.success = TRUE]
         ELSE [b EXCEPT !.exc = NoExc, !.success = FALSE])

\* create_checkout_session without its two guards
create_checkout_session_unguarded(c) == CheckoutSession(c)

\* StripeSync.create_checkout_session: the two guards, then the try
create_checkout_session(c) ==
    IF ~is_buyable(c.inst) THEN [c EXCEPT !.success = FALSE]
    ELSE IF c.inst.stripe_price_id = Empty THEN [c EXCEPT !.success = FALSE]
    ELSE CheckoutSession(c)

----------------------------------------------------------------------------
\* signals.py

\* pre_save: instance._old_status is set only when the instance has a pk
track_product_status_change(c) ==
    IF c.inst.pk # NoPk
      THEN IF c.db.exists /\ c.db.pk = c.inst.pk
             THEN [c EXCEPT !.inst.old_status = c.db.status]
             ELSE [c EXCEPT !.inst.old_status = None]
      ELSE c

\* the policy deactivating on every save that leaves the product INACTIVE
SyncPolicyEveryInactive(c, created) ==
    IF c.inst.old_status = Unset THEN Raise(c, AttributeError)
    ELSE IF c.inst.status = INACTIVE THEN deactivate_product(c)
    ELSE IF c.inst.status = ACTIVE THEN create_or_update_product(c)
    ELSE c

\* the try body of the post_save hook
SyncPolicy(c, created) ==
    IF c.inst.old_status = Unset THEN Raise(c, AttributeError)
    ELSE IF c.inst.status = INACTIVE /\ c.inst.old_status # INACTIVE
      THEN deactivate_product(c)
    ELSE IF c.inst.status = ACTIVE THEN create_or_update_product(c)
    ELSE c

\* post_save: the two early returns, then the try body under except Exception
sync_product_to_stripe(c, created) ==
    IF c.inst.skip_stripe_sync THEN c
    ELSE IF ~c.settings.STRIPE_SECRET_KEY THEN c
    ELSE Bind(SyncPolicy(c, created), LAMBDA b : [b EXCEPT !.exc = NoExc])

----------------------------------------------------------------------------
\* models.py: Product

\* UPDATE of the row: all fields, or the fields of update_fields
Updated(row, i, update_fields) ==
    [f \in DOMAIN row |->
        IF f \in Fields /\ (update_fields = {} \/ f \in update_fields)
          THEN i[f] ELSE row[f]]

\* INSERT of the row
Inserted(i, pk) ==
    [f \in DOMAIN NoRow |->
        IF f = "exists" THEN TRUE ELSE IF f = "pk" THEN pk ELSE i[f]]

\* super().save(): the write to the table
DbWrite(c, update_fields) ==
    IF c.fx.db = c.nd + 1
      THEN [c EXCEPT !.nd = @ + 1, !.exc = DatabaseError, !.dbfailed = TRUE]
    ELSE IF c.inst.pk = NoPk
      THEN IF update_fields # {}
             THEN [c EXCEPT !.nd = @ + 1, !.exc = ValueError]
             ELSE [c EXCEPT !.nd = @ + 1, !.db = Inserted(c.inst, c.nextPk),
                            !.inst.pk = c.nextPk, !.nextPk = @ + 1,
                            !.created = TRUE, !.wrote = TRUE]
    ELSE IF c.db.exists /\ c.db.pk = c.inst.pk
      THEN [c EXCEPT !.nd = @ + 1,
                     !.db = Updated(c.db, c.inst, update_fields),
                     !.created = FALSE, !.wrote = TRUE]
    ELSE IF update_fields # {}
      THEN [c EXCEPT !.nd = @ + 1, !.exc = DatabaseError, !.dbfailed = TRUE]
    ELSE [c EXCEPT !.nd = @ + 1, !.db = Inserted(c.inst, c.inst.pk),
                   !.created = TRUE, !.wrote = TRUE]

\* super().save() with its signals: pre_save, the write, post_save
SuperSave(c, update_fields) ==
    Then(DbWrite(track_product_status_change(c), update_fields), LAMBDA c1 :
    sync_product_to_stripe(c1, c1.created))

\* Product.save inside a transaction that a failed remote call rolls back
ProductSaveRollback(c, update_fields) ==
    Bind(SuperSave(c, update_fields), LAMBDA c2 :
    IF c2.exc # NoExc THEN c2
    ELSE IF c2.nfailed > c.nfailed
      THEN [c2 EXCEPT !.db = c.db, !.nextPk = c.nextPk, !.exc = StripeError]
    ELSE [c2 EXCEPT !.cache = NoCache])

\* Product.save: super().save(), then cache.delete('product_filters')
ProductSave(c, update_fields) ==
    Then(SuperSave(c, update_fields), LAMBDA c2 :
    [c2 EXCEPT !.cache = NoCache])

----------------------------------------------------------------------------
\* api/webhooks.py

\* the Stripe-Signature header of a request
Signatures == {"absent", "invalid", "valid"}

\* the payload: not an event, or an event of a type
EventTypes ==
    {"malformed", "checkout.session.completed", "checkout.session.expired",
     "customer.created"}

\* session.metadata.get('product_id'): missing, not a number, or a number
ProductIds ==
    {<<"missing", 0>>, <<"text", 0>>}
    \cup {<<"digits", n>> : n \in 1..(MaxPk + 1)}

NoRequest ==
    [sig |-> "absent", type |-> "malformed", product_id |-> <<"missing", 0>>]

\* the checkout.session.completed branch refusing a product already sold
CheckoutCompletedOnce(c, product_id_str) ==
    IF product_id_str[1] # "digits" THEN [c EXCEPT !.ret = 400]
    ELSE IF ~(c.db.exists /\ c.db.pk = product_id_str[2])
      THEN [c EXCEPT !.ret = 404]
    ELSE IF c.db.status = SOLD THEN [c EXCEPT !.ret = 400]
    ELSE Bind(mark_as_sold([c EXCEPT !.inst.skip_stripe_sync = TRUE]),
              LAMBDA c1 : [c1 EXCEPT !.exc = NoExc, !.ret = 200])

\* the checkout.session.completed branch without `except Product.DoesNotExist`
CheckoutCompletedLookupUncaught(c, product_id_str) ==
    IF product_id_str[1] = "missing" THEN [c EXCEPT !.ret = 400]
    ELSE IF product_id_str[1] # "digits" THEN [c EXCEPT !.ret = 400]
    ELSE IF ~(c.db.exists /\ c.db.pk = product_id_str[2])
      THEN [c EXCEPT !.ret = 500]
    ELSE Bind(mark_as_sold([c EXCEPT !.inst.skip_stripe_sync = TRUE]),
              LAMBDA c1 :
              IF c1.exc # NoExc THEN [c1 EXCEPT !.exc = NoExc, !.ret = 500]
              ELSE [c1 EXCEPT !.ret = 200])

\* the checkout.session.completed branch
CheckoutCompleted(c, product_id_str) ==
    IF product_id_str[1] = "missing" THEN [c EXCEPT !.ret = 400]
    ELSE IF product_id_str[1] # "digits" THEN [c EXCEPT !.ret = 400]
    ELSE IF ~(c.db.exists /\ c.db.pk = product_id_str[2])
      THEN [c EXCEPT !.ret = 404]
    ELSE Bind(mark_as_sold([c EXCEPT !.inst.skip_stripe_sync = TRUE]),
              LAMBDA c1 :
              IF c1.exc # NoExc THEN [c1 EXCEPT !.exc = NoExc, !.ret = 500]
              ELSE [c1 EXCEPT !.ret = 200])

\* stripe_webhook reading the event without verifying its signature
stripe_webhook_unverified(c, sig_header, type, product_id_str) ==
    IF sig_header = "absent" THEN [c EXCEPT !.ret = 400]
    ELSE IF ~c.settings.STRIPE_WEBHOOK_SECRET THEN [c EXCEPT !.ret = 500]
    ELSE IF type = "malformed" THEN [c EXCEPT !.ret = 400]
    ELSE IF type = "checkout.session.completed"
      THEN CheckoutCompleted(c, product_id_str)
    ELSE [c EXCEPT !.ret = 200]

\* stripe_webhook handling an expired checkout as a completed one, and
\* refusing the types it does not know
stripe_webhook_by_metadata(c, sig_header, type, product_id_str) ==
    IF sig_header = "absent" THEN [c EXCEPT !.ret = 400]
    ELSE IF ~c.settings.STRIPE_WEBHOOK_SECRET THEN [c EXCEPT !.ret = 500]
    ELSE IF sig_header = "invalid" THEN [c EXCEPT !.ret = 400]
    ELSE IF type = "malformed" THEN [c EXCEPT !.ret = 400]
    ELSE IF type \in {"checkout.session.completed", "checkout.session.expired"}
      THEN CheckoutCompleted(c, product_id_str)
    ELSE [c EXCEPT !.ret = 400]

\* stripe_webhook(request)
stripe_webhook(c, sig_header, type, product_id_str) ==
    IF sig_header = "absent" THEN [c EXCEPT !.ret = 400]
    ELSE IF ~c.settings.STRIPE_WEBHOOK_SECRET THEN [c EXCEPT !.ret = 500]
    ELSE IF sig_header = "invalid" THEN [c EXCEPT !.ret = 400]
    ELSE IF type = "malformed" THEN [c EXCEPT !.ret = 400]
    ELSE IF type = "checkout.session.completed"
      THEN CheckoutCompleted(c, product_id_str)
    ELSE [c EXCEPT !.ret = 200]

----------------------------------------------------------------------------
\* api/views.py

\* request.data of a checkout request: invalid for the serializer, or valid
\* with a product_id
CheckoutRequests ==
    {<<"invalid", 0>>} \cup {<<"valid", n>> : n \in 1..(MaxPk + 1)}

\* create_checkout(request)
create_checkout(c, data) ==
    IF data[1] # "valid" THEN [c EXCEPT !.ret = 400]
    ELSE IF ~(c.db.exists /\ c.db.pk = data[2]) THEN [c EXCEPT !.ret = 404]
    ELSE IF ~is_buyable(c.inst) THEN [c EXCEPT !.ret = 404]
    ELSE Bind(create_checkout_session(c), LAMBDA c1 :
         IF c1.success THEN [c1 EXCEPT !.ret = 200]
         ELSE [c1 EXCEPT !.ret = 500])

----------------------------------------------------------------------------
\* the handlers

\* one execution of a handler: the instance it was handed, the request of a
\* webhook delivery, and the context at its end
Run(op, i, request, c) == [op |-> op, i |-> i, request |-> request, c |-> c]

\* the provider, the table and the clock stay within the bounds
WithinBounds(c) ==
    /\ Len(c.sp) <= MaxRemoteProducts
    /\ Len(c.pr) <= MaxRemotePrices
    /\ Len(c.ss) <= MaxSessions
    /\ c.nextPk <= MaxPk + 1
    /\ c.now <= MaxClock

\* the handler's effects on the table, the provider, the cache and the clock
CommitEffects(c) ==
    /\ WithinBounds(c)
    /\ db' = c.db
    /\ nextPk' = c.nextPk
    /\ stripeProducts' = c.sp
    /\ stripePrices' = c.pr
    /\ stripeSessions' = c.ss
    /\ cache' = c.cache
    /\ now' = c.now

\* a handler that runs from start to end in one step
Commit(c) ==
    /\ CommitEffects(c)
    /\ UNCHANGED <<products, settings, reader, writer>>

\* the admin creates a product: instance.save(), an exception of the write
\* propagates
Creates(faults) ==
    IF db.exists THEN {}
    ELSE {Run("create", NewInstance(status, price), NoRequest,
              ProductSave(Context(NewInstance(status, price), fx), {})) :
            status \in ProductStatus, price \in Prices, fx \in faults}

AdminCreate(faults) == \E r \in Creates(faults) : Commit(r.c)

\* the instance with at most one of the fields changed
StatusEdited(i) == {[i EXCEPT !.status = v] : v \in ProductStatus}
Edited(i) ==
    StatusEdited(i) \cup {[i EXCEPT !.price = v] : v \in Prices}
                    \cup {[i EXCEPT !.stripe_price_id = Bogus]}

\* the admin edits the stored product: the form is bound to a fresh instance
Edits(edits, faults) ==
    IF ~db.exists THEN {}
    ELSE {Run("edit", i, NoRequest, ProductSave(Context(i, fx), {})) :
            i \in edits, fx \in faults}

AdminEdit(edits, faults) == \E r \in Edits(edits, faults) : Commit(r.c)

\* manage.py sync_stripe_products [--force]
sync_stripe_products(c, force) ==
    IF ~c.settings.STRIPE_SECRET_KEY THEN c
    ELSE IF force \/ c.db.status = ACTIVE THEN create_or_update_product(c)
    ELSE c

Syncs(faults) ==
    IF ~db.exists THEN {}
    ELSE {Run("sync", FromDb(db), NoRequest,
              sync_stripe_products(Context(FromDb(db), fx), force)) :
            force \in BOOLEAN, fx \in faults}

SyncCommand == \E r \in Syncs(Faults(4, 1)) : Commit(r.c)

\* the requests: only a completed checkout carries a product id, and only
\* the delivery of a validly signed one reaches a call that can fail
Requests ==
    {q \in [sig : Signatures, type : EventTypes, product_id : ProductIds] :
        q.type # "checkout.session.completed" => q.product_id[1] = "missing"}

RequestFaults(q) ==
    IF /\ q.sig = "valid"
       /\ q.type = "checkout.session.completed"
       /\ q.product_id[1] = "digits"
      THEN Faults(1, 1) ELSE {NoFaults}

\* POST /api/webhooks/stripe/
Deliveries ==
    UNION {{Run("webhook", FromDb(db), q,
                stripe_webhook(Context(FromDb(db), fx), q.sig, q.type,
                               q.product_id)) : fx \in RequestFaults(q)} :
             q \in Requests}

Webhook == \E r \in Deliveries : Commit(r.c)

\* POST /api/v1/checkout/: the view loads the product it is asked for
Checkouts ==
    {Run("checkout", FromDb(db), [NoRequest EXCEPT !.product_id = data],
         create_checkout(Context(FromDb(db), fx), data)) :
       data \in CheckoutRequests, fx \in Faults(1, 0)}

Checkout == \E r \in Checkouts : Commit(r.c)

\* the buyer pays an open checkout Session; the provider takes the payment
\* while the Product and the Price of the Session are active
Pay ==
    /\ \E k \in DOMAIN stripeSessions :
         /\ stripeSessions[k].status = "open"
         /\ stripePrices[stripeSessions[k].price].active
         /\ stripeProducts[stripePrices[stripeSessions[k].price].product].active
         /\ stripeSessions' = [stripeSessions EXCEPT ![k].status = "complete"]
    /\ UNCHANGED <<products, settings, db, nextPk, stripeProducts,
                   stripePrices, cache, now, reader, writer>>

\* the provider's record of a delivery: a checkout.session.completed event
\* answered 200 is delivered
Acknowledged(c, k) ==
    IF c.ret = 200 THEN [c EXCEPT !.ss[k].status = "delivered"] ELSE c

\* the deliveries of the checkout.session.completed event of a paid Session,
\* with the product_id of its metadata
SessionDeliveries(k) ==
    {Run("webhook", FromDb(db),
         [sig |-> "valid", type |-> "checkout.session.completed",
          product_id |-> <<"digits", stripeSessions[k].product_id>>],
         Acknowledged(
             stripe_webhook(Context(FromDb(db), NoFaults), "valid",
                            "checkout.session.completed",
                            <<"digits", stripeSessions[k].product_id>>), k))}

\* the provider delivers the event of a paid Session
SessionCompleted ==
    \E k \in DOMAIN stripeSessions :
        /\ stripeSessions[k].status = "complete"
        /\ \E r \in SessionDeliveries(k) : Commit(r.c)

\* Product.delete: the cache is invalidated, then the row is deleted
Delete ==
    /\ db.exists
    /\ db' = NoRow
    /\ cache' = NoCache
    /\ UNCHANGED <<products, settings, nextPk, stripeProducts, stripePrices,
                   stripeSessions, now, reader, writer>>

Idle == [pc |-> "idle", data |-> {}]

Init ==
    /\ settings \in [STRIPE_SECRET_KEY : BOOLEAN, STRIPE_WEBHOOK_SECRET : BOOLEAN]
    /\ db = NoRow
    /\ nextPk = 1
    /\ stripeProducts = <<>>
    /\ stripePrices = <<>>
    /\ stripeSessions = <<>>
    /\ cache = NoCache
    /\ now = 0
    /\ reader = Idle
    /\ writer = Idle
    /\ products = <<>>

\* the saves of the admin, with the failures of the provider and the table
Saves == Creates(Faults(2, 2)) \cup Edits(Edited(FromDb(db)), Faults(4, 2))

Next ==
    \/ AdminCreate(Faults(2, 2))
    \/ AdminEdit(Edited(FromDb(db)), Faults(4, 2))
    \/ SyncCommand

Spec == Init /\ [][Next]_vars

\* the webhook reconciler beside admin saves whose remote calls succeed
NextWebhook ==
    \/ AdminCreate({NoFaults})
    \/ AdminEdit(StatusEdited(FromDb(db)), {NoFaults})
    \/ Webhook
    \/ Checkout
    \/ Delete

SpecWebhook == Init /\ [][NextWebhook]_vars

\* buyers checking out and paying beside admin saves, with the events of
\* their Sessions delivered to the webhook
NextCheckout ==
    \/ AdminCreate({NoFaults})
    \/ AdminEdit(StatusEdited(FromDb(db)), {NoFaults})
    \/ Checkout
    \/ Pay
    \/ SessionCompleted

SpecCheckout == Init /\ [][NextCheckout]_vars

----------------------------------------------------------------------------
\* views.py: product_filters_api beside Product.save and Product.delete,
\* each request and each write taken one statement at a time

\* the response built from Product.objects.filter(active=True): the distinct
\* non-blank values of przeznaczenie_ogolne
Aggregate(row) ==
    IF row.exists /\ row.active /\ row.przeznaczenie_ogolne # Blank
      THEN {row.przeznaczenie_ogolne} ELSE {}

\* cached_data = cache.get(cache_key): a hit is returned at once
FiltersGet ==
    /\ reader.pc = "idle"
    /\ reader' = IF cache.hit THEN [pc |-> "idle", data |-> cache.data]
                  ELSE [pc |-> "query", data |-> {}]
    /\ UNCHANGED <<products, settings, db, nextPk, stripeProducts,
                   stripePrices, stripeSessions, cache, now, writer>>

\* the queries over the active products
FiltersQuery ==
    /\ reader.pc = "query"
    /\ reader' = [pc |-> "set", data |-> Aggregate(db)]
    /\ UNCHANGED <<products, settings, db, nextPk, stripeProducts,
                   stripePrices, stripeSessions, cache, now, writer>>

\* cache.set(cache_key, response_data, 86400) and the response
FiltersSet ==
    /\ reader.pc = "set"
    /\ cache' = [hit |-> TRUE, data |-> reader.data]
    /\ reader' = [pc |-> "idle", data |-> reader.data]
    /\ UNCHANGED <<products, settings, db, nextPk, stripeProducts,
                   stripePrices, stripeSessions, now, writer>>

\* the instances the admin saves: a new product of some status, or the
\* stored one with `active` or przeznaczenie_ogolne changed
CacheSaved ==
    IF ~db.exists
      THEN {[NewInstance(status, 100) EXCEPT !.przeznaczenie_ogolne = p] :
              status \in ProductStatus, p \in Przeznaczenie}
      ELSE {[FromDb(db) EXCEPT !.active = a] : a \in BOOLEAN}
           \cup {[FromDb(db) EXCEPT !.przeznaczenie_ogolne = p] :
                   p \in Przeznaczenie \cup {Blank}}

\* Product.save up to the return of super().save()
SaveWrite ==
    /\ writer.pc = "idle"
    /\ \E i \in CacheSaved :
         \E c \in {SuperSave(Context(i, NoFaults), {})} :
             /\ c.exc = NoExc
             /\ CommitEffects(c)
    /\ writer' = [pc |-> "save_invalidate", data |-> {}]
    /\ UNCHANGED <<products, settings, reader>>

\* Product.save: cache.delete('product_filters')
SaveInvalidate ==
    /\ writer.pc = "save_invalidate"
    /\ cache' = NoCache
    /\ writer' = Idle
    /\ UNCHANGED <<products, settings, db, nextPk, stripeProducts,
                   stripePrices, stripeSessions, now, reader>>

\* Product.delete: cache.delete('product_filters')
DeleteInvalidate ==
    /\ writer.pc = "idle"
    /\ db.exists
    /\ cache' = NoCache
    /\ writer' = [pc |-> "delete_row", data |-> {}]
    /\ UNCHANGED <<products, settings, db, nextPk, stripeProducts,
                   stripePrices, stripeSessions, now, reader>>

\* Product.delete: super().delete()
DeleteRow ==
    /\ writer.pc = "delete_row"
    /\ db' = NoRow
    /\ writer' = Idle
    /\ UNCHANGED <<products, settings, nextPk, stripeProducts, stripePrices,
                   stripeSessions, cache, now, reader>>

NextCache ==
    \/ FiltersGet
    \/ FiltersQuery
    \/ FiltersSet
    \/ SaveWrite
    \/ SaveInvalidate
    \/ DeleteInvalidate
    \/ DeleteRow

SpecCache == Init /\ [][NextCache]_vars

----------------------------------------------------------------------------
\* models.py: the slug of Product.save, on a table of several products of
\* which the name and the slug are followed

\* a slug is the sequence of its parts between hyphens: "a-1" is <<"a", "1">>
NoSlug == <<"">>

\* the names the admin enters
Names == {"A", "a", "a 1"}

\* slugify(self.name)
slugify(name) ==
    CASE name = "A" -> <<"a">>
      [] name = "a" -> <<"a">>
      [] name = "a 1" -> <<"a", "1">>

\* the slugs the admin enters: none, or one that a name may also produce
EnteredSlugs == {NoSlug, <<"a">>, <<"a", "1">>}

\* f"{base_slug}-{counter}"
Suffixed(base_slug, counter) == Append(base_slug, ToString(counter))

\* Product.objects.filter(slug=slug).exclude(pk=pk).exists(); a new instance
\* has no pk to exclude
SlugTaken(table, slug, pk) ==
    \E k \in DOMAIN table :
        table[k].exists /\ k # pk /\ table[k].slug = slug

\* the loop as an `if`: one suffix is tried
SlugOneSuffix(table, pk, base_slug, slug, counter) ==
    IF SlugTaken(table, slug, pk) THEN Suffixed(base_slug, counter) ELSE slug

RECURSIVE SlugLoop(_, _, _, _, _)
\* while queryset.exists(): slug = f"{base_slug}-{counter}"; counter += 1
SlugLoop(table, pk, base_slug, slug, counter) ==
    IF SlugTaken(table, slug, pk)
      THEN SlugLoop(table, pk, base_slug, Suffixed(base_slug, counter),
                    counter + 1)
      ELSE slug

\* if not self.slug: ... self.slug = slug
AssignSlug(table, pk, i) ==
    IF i.slug = NoSlug
      THEN [i EXCEPT !.slug = SlugLoop(table, pk, slugify(i.name),
                                       slugify(i.name), 1)]
      ELSE i

\* super().save() on a column with unique=True
SlugWrite(table, pk, i) ==
    IF SlugTaken(table, i.slug, pk)
      THEN [table |-> table, exc |-> IntegrityError, inst |-> i]
    ELSE IF pk = NoPk
      THEN [table |-> Append(table, [name |-> i.name, slug |-> i.slug,
                                     exists |-> TRUE]),
            exc |-> NoExc, inst |-> i]
    ELSE [table |-> [table EXCEPT ![pk] = [name |-> i.name, slug |-> i.slug,
                                           exists |-> TRUE]],
          exc |-> NoExc, inst |-> i]

\* Product.save of the instance i with the primary key pk
SlugSave(table, pk, i) == SlugWrite(table, pk, AssignSlug(table, pk, i))

\* the saves from the current table: of a new product, and of a stored one
\* with the name or the slug of the form
SlugSaves ==
    {[pk |-> NoPk, i |-> i, c |-> SlugSave(products, NoPk, i)] :
        i \in [name : Names, slug : EnteredSlugs]}
    \cup UNION {{[pk |-> k, i |-> i, c |-> SlugSave(products, k, i)] :
                  i \in [name : Names,
                         slug : EnteredSlugs \cup {products[k].slug}]} :
                k \in {j \in DOMAIN products : products[j].exists}}

\* the admin saves a product
SlugSaved ==
    /\ \E r \in SlugSaves :
         /\ r.c.exc = NoExc
         /\ Len(r.c.table) <= MaxRows
         /\ products' = r.c.table
    /\ UNCHANGED <<settings, db, nextPk, stripeProducts, stripePrices,
                   stripeSessions, cache, now, reader, writer>>

\* a row that was deleted
DeletedRow == [name |-> "a", slug |-> NoSlug, exists |-> FALSE]

\* the admin deletes a product
SlugDeleted ==
    /\ \E k \in DOMAIN products :
         /\ products[k].exists
         /\ products' = [products EXCEPT ![k] = DeletedRow]
    /\ UNCHANGED <<settings, db, nextPk, stripeProducts, stripePrices,
                   stripeSessions, cache, now, reader, writer>>

NextSlug ==
    \/ SlugSaved
    \/ SlugDeleted

\* the slug does not depend on the settings of the provider
InitSlug ==
    /\ Init
    /\ settings = [STRIPE_SECRET_KEY |-> TRUE, STRIPE_WEBHOOK_SECRET |-> TRUE]

SpecSlug == InitSlug /\ [][NextSlug]_vars

----------------------------------------------------------------------------
\* properties

\* the calls of create_or_update_product: by the post-save hook of a save,
\* and by the sync command
Calls == Saves \cup Syncs(Faults(4, 1))

\* a direct call of create_or_update_product on the stored product, whatever
\* the settings
DirectCalls(faults) ==
    IF ~db.exists THEN {}
    ELSE {Run("call", FromDb(db), NoRequest,
              create_or_update_product(Context(FromDb(db), fx))) :
            fx \in faults}

\* C1: every save that leaves the product ACTIVE, with the provider configured
\* and the bypass flag not set, makes the post-save hook call
\* create_or_update_product exactly once, the save of a new record included
C1_ActiveSaveSyncsOnce ==
    \A r \in Saves :
        (/\ r.c.exc = NoExc
         /\ r.i.status = ACTIVE
         /\ ~r.i.skip_stripe_sync
         /\ settings.STRIPE_SECRET_KEY) => r.c.ncou = 1

\* C2: create_or_update_product never raises, and a step of it that fails
\* without being recovered (the API key missing, a remote call other than a
\* Price lookup answered by a replacement, or the write-back of the ids)
\* makes it return success=false
C2_NeverRaises ==
    \A r \in Calls \cup DirectCalls(Faults(4, 1)) :
        r.c.ncou > 0 =>
            /\ r.c.cou \in {"success", "failure"}
            /\ r.c.exc = NoExc
            /\ (\/ ~settings.STRIPE_SECRET_KEY
                \/ r.c.nfailed > r.c.nrecovered
                \/ r.c.dbfailed) => (r.c.cou = "failure" /\ ~r.c.success)

\* C2, as stated: every failing remote call makes create_or_update_product
\* return success=false
C2_EveryFailureFails ==
    \A r \in Calls \cup DirectCalls(Faults(4, 1)) :
        (r.c.ncou > 0 /\ r.c.nfailed > 0) =>
            (r.c.cou = "failure" /\ ~r.c.success /\ r.c.exc = NoExc)

\* C2: the product has remote objects, and a call on it meets a failing
\* remote step and returns success=false
C2_Witness ==
    /\ db.exists
    /\ db.stripe_product_id \in DOMAIN stripeProducts
    /\ \E r \in Calls :
        /\ WithinBounds(r.c)
        /\ r.c.ncou = 1
        /\ r.c.nfailed > r.c.nrecovered
        /\ r.c.cou = "failure"
        /\ r.c.exc = NoExc

\* C3: a save during which remote calls fail returns normally and the row
\* holds the saved values; only stripe_price_id may differ, when the failed
\* call was the Price lookup and the sync wrote the replacement's id back
C3_RemoteFailureKeepsSave ==
    \A r \in Saves :
        r.c.nfailed > 0 =>
            /\ r.c.exc = NoExc
            /\ r.c.db.exists
            /\ \A f \in Fields \ {"stripe_price_id"} : r.c.db[f] = r.i[f]
            /\ r.c.db.stripe_price_id # r.i.stripe_price_id
                  => (r.c.nrecovered > 0 /\ r.c.cou = "success")

\* C3, as stated: a save during which remote calls fail returns normally and
\* the row holds exactly the saved values
C3_ExactlySavedValues ==
    \A r \in Saves :
        r.c.nfailed > 0 =>
            /\ r.c.exc = NoExc
            /\ r.c.db.exists
            /\ \A f \in Fields : r.c.db[f] = r.i[f]

\* C3: a save that changes the price of a product with remote objects, and
\* whose remote call fails
C3_Witness ==
    \E r \in Saves :
        /\ WithinBounds(r.c)
        /\ r.i.price # db.price
        /\ r.i.stripe_product_id \in DOMAIN stripeProducts
        /\ r.c.nfailed > 0
        /\ r.c.nrecovered = 0
        /\ r.c.cou = "failure"
        /\ r.c.db.price = r.i.price

\* C4: no remote call made on behalf of a save (by the post-save hook, or by
\* mark_as_sold's deactivation) is made, or attempted, before the row of
\* that save is written
C4_LocalWriteFirst ==
    \A r \in Saves \cup Deliveries : ~r.c.early

\* C4: a product with a remote object, sold by a delivery that then calls the
\* provider
C4_Witness ==
    /\ db.exists
    /\ db.status = ACTIVE
    /\ \E r \in Deliveries :
        /\ WithinBounds(r.c)
        /\ r.c.nr > 0
        /\ r.c.db.status = SOLD
        /\ ~r.c.sp[db.stripe_product_id].active

\* C5: when create_or_update_product returns success=true, both ids are
\* non-empty in the instance it was called on and in the row
C5_SuccessSetsIds ==
    \A r \in Calls :
        r.c.cou = "success" =>
            /\ r.c.inst.stripe_product_id # Empty
            /\ r.c.inst.stripe_price_id # Empty
            /\ r.c.db.exists
            /\ r.c.db.stripe_product_id = r.c.inst.stripe_product_id
            /\ r.c.db.stripe_price_id = r.c.inst.stripe_price_id

\* C5: a successful call that creates the remote objects of the product
C5_Witness ==
    \E r \in Calls :
        /\ WithinBounds(r.c)
        /\ r.i.stripe_product_id = Empty
        /\ r.c.cou = "success"
        /\ r.c.db.stripe_price_id \in DOMAIN r.c.pr

\* the context of the next call on the same instance: what the call before
\* left, with the faults of the next call
Again(c, fx) ==
    [c EXCEPT !.fx = fx, !.nr = 0, !.nd = 0, !.exc = NoExc, !.nfailed = 0,
              !.nrecovered = 0, !.dbfailed = FALSE, !.ncou = 0,
              !.cou = "none", !.newPrices = 0, !.success = FALSE]

\* the saves during which no call fails: a call of create_or_update_product
\* that succeeds met no failure
QuietSaves ==
    Creates({NoFaults}) \cup Edits(Edited(FromDb(db)), {NoFaults})

\* the calls of create_or_update_product that follow a successful call, on
\* the same instance with its price unchanged
SecondCalls ==
    {Run("call", r.c.inst, NoRequest,
         create_or_update_product(Again(r.c, NoFaults))) :
       r \in {x \in QuietSaves \cup Syncs({NoFaults})
                      \cup DirectCalls({NoFaults}) : x.c.cou = "success"}}

\* C6: a second successful create_or_update_product, on a product whose price
\* did not change since the first, creates no remote Price and leaves
\* stripe_price_id as the first call left it
C6_IdempotentPrice ==
    \A r \in SecondCalls :
        r.c.cou = "success" =>
            /\ r.c.newPrices = 0
            /\ r.c.inst.stripe_price_id = r.i.stripe_price_id
            /\ r.c.db.stripe_price_id = r.i.stripe_price_id

\* C6: a first call has created a Price, and the second call succeeds
C6_Witness ==
    /\ stripePrices # <<>>
    /\ \E r \in SecondCalls :
        /\ r.c.cou = "success"
        /\ r.c.nr = 2
        /\ r.c.inst.stripe_price_id \in DOMAIN r.c.pr

\* the stored ids name remote objects, the Price with the amount of the
\* stored price
Synced ==
    /\ db.exists
    /\ db.stripe_product_id \in DOMAIN stripeProducts
    /\ db.stripe_price_id \in DOMAIN stripePrices
    /\ stripePrices[db.stripe_price_id].unit_amount = _price_to_grosze(db.price)

\* the save changes the price of the stored product to another amount
PriceChanged(r) ==
    /\ r.i.stripe_product_id = db.stripe_product_id
    /\ r.i.stripe_price_id = db.stripe_price_id
    /\ _price_to_grosze(r.i.price) # _price_to_grosze(db.price)

ValidCompleted(q) ==
    /\ settings.STRIPE_WEBHOOK_SECRET
    /\ db.exists
    /\ q.sig = "valid"
    /\ q.type = "checkout.session.completed"
    /\ q.product_id = <<"digits", db.pk>>

\* C8: a validly signed checkout.session.completed for a stored product is
\* answered 200 and, the write to the table not failing, leaves the product
\* SOLD with sold_at set; delivered again, it is answered 200 and the product
\* is still SOLD
C8_CompletedCheckoutSells ==
    \A r \in Deliveries :
        ValidCompleted(r.request) =>
            /\ r.c.ret = 200
            /\ r.c.exc = NoExc
            /\ r.c.db.exists
            /\ ~r.c.dbfailed => (r.c.db.status = SOLD /\ r.c.db.sold_at # Null)
            /\ db.status = SOLD => r.c.db.status = SOLD

\* C8: the product was sold by a delivery, and the event is delivered again
C8_Witness ==
    /\ db.exists
    /\ db.status = SOLD
    /\ db.sold_at # Null
    /\ \E r \in Deliveries :
        /\ WithinBounds(r.c)
        /\ ValidCompleted(r.request)
        /\ r.c.ret = 200
        /\ r.c.db.status = SOLD
        /\ r.c.db.sold_at # Null

\* the delivery leaves the table and the provider's objects as they were
ChangesNothing(r) ==
    /\ r.c.db = db
    /\ r.c.sp = stripeProducts
    /\ r.c.pr = stripePrices
    /\ r.c.ss = stripeSessions

\* C9: a delivery with an invalid signature is answered 400 when the webhook
\* secret is configured and 500 when it is not, whatever the payload, and
\* changes neither the product nor the provider's objects
C9_InvalidSignatureRejected ==
    \A r \in Deliveries :
        r.request.sig = "invalid" =>
            /\ r.c.ret = IF settings.STRIPE_WEBHOOK_SECRET THEN 400 ELSE 500
            /\ ChangesNothing(r)

\* C9, as stated: a delivery with an invalid signature is answered 400 for
\* every configuration of the webhook secret, and changes no product
C9_InvalidSignatureAlways400 ==
    \A r \in Deliveries :
        r.request.sig = "invalid" => (r.c.ret = 400 /\ ChangesNothing(r))

\* C9: an invalidly signed completed checkout of a stored, buyable product
\* with a remote object is answered 400
C9_Witness ==
    /\ db.exists
    /\ db.status = ACTIVE
    /\ db.stripe_product_id \in DOMAIN stripeProducts
    /\ \E r \in Deliveries :
        /\ r.request.sig = "invalid"
        /\ r.request.type = "checkout.session.completed"
        /\ r.request.product_id = <<"digits", db.pk>>
        /\ r.c.ret = 400

\* C10: once a save or delete has completed, the cache entry never holds
\* data computed before it: with no write and no request in progress, a
\* cached response is the one the table gives
C10_CacheNeverStale ==
    (writer.pc = "idle" /\ reader.pc = "idle" /\ cache.hit) =>
        cache.data = Aggregate(db)

\* the values of przeznaczenie_ogolne carried by the products whose status is
\* ACTIVE
CarriedByActive ==
    IF db.exists /\ db.status = ACTIVE /\ db.przeznaczenie_ogolne # Blank
      THEN {db.przeznaczenie_ogolne} ELSE {}

\* C11: the filter values that product_filters_api computes on a cache miss
\* are the values carried by the products whose status is ACTIVE: no value
\* carried only by INACTIVE or SOLD products, and every value of an ACTIVE one
C11_FiltersFromActiveStatus ==
    [][FiltersQuery => reader'.data = CarriedByActive]_vars

\* a direct call of create_checkout_session on the stored product
DirectCheckoutSessions ==
    IF ~db.exists THEN {}
    ELSE {Run("session", FromDb(db), NoRequest,
              create_checkout_session(Context(FromDb(db), fx))) :
            fx \in Faults(1, 0)}

\* C12: a checkout for a product that is not buyable (its status is not
\* ACTIVE, or its stripe_price_id is empty) makes no call to the provider and
\* creates no Session; create_checkout_session returns success=false and the
\* view answers with an error; so it is for every checkout of a SOLD product
C12_NonBuyableNoCheckout ==
    \A r \in Checkouts \cup DirectCheckoutSessions :
        (r.i.status # ACTIVE \/ r.i.stripe_price_id = Empty) =>
            /\ r.c.nr = 0
            /\ r.c.ss = stripeSessions
            /\ ~r.c.success
            /\ r.c.exc = NoExc
            /\ r.op = "checkout" => r.c.ret \in {400, 404}

\* C12: a product with a remote Price and a checkout Session has been sold,
\* and a further checkout of it is refused
C12_Witness ==
    /\ db.exists
    /\ db.status = SOLD
    /\ db.stripe_price_id \in DOMAIN stripePrices
    /\ \E k \in DOMAIN stripeSessions : stripeSessions[k].product_id = db.pk
    /\ \E r \in Checkouts :
        /\ r.request.product_id = <<"valid", db.pk>>
        /\ r.c.ret = 404
        /\ r.c.nr = 0
    /\ \E r \in DirectCheckoutSessions : ~r.c.success /\ r.c.nr = 0

\* C13: sold_at is set once: no save, webhook delivery (a repeated one
\* included) or mark_as_sold changes or clears the sold_at of a stored
\* product once it is not null
C13_SoldAtSetOnce ==
    [][(db.exists /\ db.sold_at # Null /\ db'.exists /\ db'.pk = db.pk)
          => db'.sold_at = db.sold_at]_vars

\* a call of mark_as_sold on the stored product, by the webhook (with the
\* bypass flag) or by another caller
MarkAsSoldCalls ==
    IF ~db.exists THEN {}
    ELSE {Run("sold", [FromDb(db) EXCEPT !.skip_stripe_sync = skip], NoRequest,
              mark_as_sold(Context([FromDb(db) EXCEPT !.skip_stripe_sync = skip],
                                   fx))) :
            skip \in BOOLEAN, fx \in Faults(1, 1)}

\* C14: whenever its write of status, sold_at and active succeeds,
\* mark_as_sold returns success=true and the row is SOLD with sold_at set and
\* active false, whether the remote deactivation fails, succeeds, or is not
\* made for want of a remote product id
C14_LocalSoldIsAuthoritative ==
    \A r \in MarkAsSoldCalls \cup {d \in Deliveries : ValidCompleted(d.request)} :
        ~r.c.dbfailed =>
            /\ r.c.success
            /\ r.c.exc = NoExc
            /\ r.c.db.exists
            /\ r.c.db.status = SOLD
            /\ r.c.db.sold_at # Null
            /\ ~r.c.db.active

\* C14: the product has a remote Product, its deactivation fails, and
\* mark_as_sold returns success=true with the row SOLD
C14_Witness ==
    /\ db.exists
    /\ db.status = ACTIVE
    /\ db.stripe_product_id \in DOMAIN stripeProducts
    /\ \E r \in MarkAsSoldCalls :
        /\ WithinBounds(r.c)
        /\ r.c.ndeact = 1
        /\ r.c.nfailed = 1
        /\ r.c.success
        /\ r.c.db.status = SOLD
        /\ r.c.sp[db.stripe_product_id].active

\* the admin's saves of a new product, or of the stored one with its status
\* set, with the failures of the provider and the table
StatusSaves ==
    Creates(Faults(1, 1)) \cup Edits(StatusEdited(FromDb(db)), Faults(1, 1))

\* the save leaves the product INACTIVE, and the stored status before it
\* was another one
IntoInactive(r) ==
    /\ r.op = "edit"
    /\ r.i.status = INACTIVE
    /\ db.status # INACTIVE

\* C15: with the provider configured, the post-save hook of a save calls
\* deactivate_product exactly when the save leaves the product INACTIVE and
\* the status stored before was another one; with the provider unconfigured it
\* never does; and a save that keeps an INACTIVE product INACTIVE, or leaves
\* the product SOLD, makes no remote call
C15_DeactivateOnTransition ==
    \A r \in StatusSaves :
        r.c.exc = NoExc =>
            /\ r.c.ndeact =
                  IF settings.STRIPE_SECRET_KEY /\ IntoInactive(r) THEN 1 ELSE 0
            /\ (r.i.status = SOLD \/ (r.i.status = INACTIVE /\ ~IntoInactive(r)))
                  => r.c.nr = 0

\* C15, as stated: the hook calls deactivate_product exactly when the save
\* leaves the product INACTIVE and the status stored before was another one
C15_DeactivateExactlyOnTransition ==
    \A r \in StatusSaves :
        r.c.exc = NoExc =>
            /\ r.c.ndeact = IF IntoInactive(r) THEN 1 ELSE 0
            /\ (r.i.status = SOLD \/ (r.i.status = INACTIVE /\ ~IntoInactive(r)))
                  => r.c.nr = 0

\* C15: an ACTIVE product with an active remote Product is saved INACTIVE,
\* and the hook's deactivate_product makes the remote Product inactive
C15_Witness ==
    /\ settings.STRIPE_SECRET_KEY
    /\ db.exists
    /\ db.status = ACTIVE
    /\ db.stripe_product_id \in DOMAIN stripeProducts
    /\ stripeProducts[db.stripe_product_id].active
    /\ \E r \in StatusSaves :
        /\ IntoInactive(r)
        /\ r.c.ndeact = 1
        /\ r.c.nr = 1
        /\ ~r.c.sp[db.stripe_product_id].active
        /\ r.c.db.status = INACTIVE

\* C16: a save by the admin returns and calls create_or_update_product at
\* most once, and a webhook delivery never calls it: the write-back save of
\* the ids and the save of mark_as_sold do not re-enter the service through
\* the post-save hook
C16_NoReentry ==
    \A r \in Saves \cup Deliveries :
        /\ r.c.ncou <= 1
        /\ r.c.exc # RecursionError
        /\ r.c.nd <= 2
        /\ r.op = "webhook" => (r.c.ncou = 0 /\ r.c.ndeact <= 1 /\ r.c.nd <= 1)

\* C16: a save whose hook creates the remote objects and writes the ids back
\* with a second save
C16_Witness ==
    \E r \in Saves :
        /\ WithinBounds(r.c)
        /\ r.i.stripe_product_id = Empty
        /\ r.c.ncou = 1
        /\ r.c.cou = "success"
        /\ r.c.nd = 2
        /\ r.c.db.stripe_product_id \in DOMAIN r.c.sp

\* the delivery is a validly signed checkout.session.completed event
SignedCompleted(q) ==
    /\ settings.STRIPE_WEBHOOK_SECRET
    /\ q.sig = "valid"
    /\ q.type = "checkout.session.completed"

\* the event names no stored product: its product_id is missing, is not a
\* number, or is the id of no row
NamesNoProduct(q) ==
    \/ q.product_id[1] # "digits"
    \/ ~(db.exists /\ db.pk = q.product_id[2])

\* C17: a validly signed checkout.session.completed event is answered 400
\* when its metadata has no product_id or one that is not a number, and 404
\* when no stored product has the id; in these cases nothing is written, no
\* remote call is made and mark_as_sold is not called
C17_BadProductIdRejected ==
    \A r \in Deliveries :
        (SignedCompleted(r.request) /\ NamesNoProduct(r.request)) =>
            /\ r.c.ret = IF r.request.product_id[1] = "digits" THEN 404 ELSE 400
            /\ ChangesNothing(r)
            /\ r.c.nd = 0
            /\ r.c.nr = 0
            /\ r.c.ndeact = 0
            /\ r.c.now = now

\* C17: with a buyable product stored, events without a product_id, with a
\* product_id that is not a number and with the id of no product are
\* delivered and answered 400, 400 and 404
C17_Witness ==
    /\ db.exists
    /\ db.status = ACTIVE
    /\ db.stripe_product_id \in DOMAIN stripeProducts
    /\ \A p \in {<<"missing", 0>>, <<"text", 0>>, <<"digits", db.pk + 1>>} :
         \E r \in Deliveries :
            /\ SignedCompleted(r.request)
            /\ r.request.product_id = p
            /\ r.c.ret = IF p[1] = "digits" THEN 404 ELSE 400
            /\ r.c.db = db

\* C18: a validly signed checkout.session.completed event for a stored
\* product whose processing fails (the write of the sold status fails) is
\* answered 500, and it is answered 200 only when the row is SOLD
C18_FailedSaleNotAcknowledged ==
    \A r \in Deliveries :
        ValidCompleted(r.request) =>
            /\ r.c.dbfailed => r.c.ret = 500
            /\ r.c.ret = 200 => (r.c.db.exists /\ r.c.db.status = SOLD)

\* a direct call of deactivate_product on the stored product
DirectDeactivations ==
    IF ~db.exists THEN {}
    ELSE {Run("deactivate", FromDb(db), NoRequest,
              deactivate_product(Context(FromDb(db), fx))) :
            fx \in Faults(1, 0)}

\* C19: for a product whose stripe_product_id is empty, deactivate_product
\* returns success=false without a remote call, and neither the post-save
\* hook of a save that leaves it INACTIVE or SOLD, nor mark_as_sold, nor a
\* webhook delivery makes a remote call; the hook of a save that leaves it
\* ACTIVE does not call deactivate_product
C19_NeverSyncedNoDeactivation ==
    \A r \in DirectDeactivations \cup StatusSaves \cup MarkAsSoldCalls
              \cup Deliveries :
        r.i.stripe_product_id = Empty =>
            /\ r.op = "deactivate" => (r.c.ndeact = 1 /\ ~r.c.success)
            /\ IF r.op \in {"create", "edit"} /\ r.i.status = ACTIVE
                 THEN r.c.ndeact = 0
                 ELSE r.c.nr = 0 /\ r.c.sp = stripeProducts

\* C19: a stored product that was never synced is saved INACTIVE with the
\* provider configured: the hook calls deactivate_product, which returns
\* success=false without a remote call, as does a direct call
C19_Witness ==
    /\ settings.STRIPE_SECRET_KEY
    /\ db.exists
    /\ db.stripe_product_id = Empty
    /\ \E r \in StatusSaves :
        /\ IntoInactive(r)
        /\ r.c.ndeact = 1
        /\ r.c.nr = 0
        /\ ~r.c.success
        /\ r.c.db.status = INACTIVE
    /\ \E r \in DirectDeactivations :
        r.c.ndeact = 1 /\ r.c.nr = 0 /\ ~r.c.success

\* the stored product as loaded, and with remote ids entered in the admin
\* form or left from a time when the provider was configured
WithRemoteIds(i) ==
    {i, [i EXCEPT !.stripe_product_id = 1, !.stripe_price_id = 1]}

\* the operations on an instance: a save with the status set, and direct
\* calls of the service's methods
OperationsOn(i) ==
    {Run("edit", e, NoRequest, ProductSave(Context(e, NoFaults), {})) :
        e \in StatusEdited(i)}
    \cup {Run("call", i, NoRequest,
               create_or_update_product(Context(i, NoFaults))),
          Run("deactivate", i, NoRequest,
              deactivate_product(Context(i, NoFaults))),
          Run("sold", i, NoRequest,
              mark_as_sold(Context([i EXCEPT !.skip_stripe_sync = TRUE],
                                   NoFaults))),
          Run("session", i, NoRequest,
              create_checkout_session(Context(i, NoFaults)))}

\* the operations from the current state: creating a product, the sync
\* command, webhook deliveries, and the operations on the stored product
Operations ==
    Creates({NoFaults}) \cup Syncs({NoFaults}) \cup Deliveries
    \cup (IF db.exists
            THEN UNION {OperationsOn(i) : i \in WithRemoteIds(FromDb(db))}
            ELSE {})

\* C20: with STRIPE_SECRET_KEY unconfigured the provider holds no object,
\* and no save, webhook delivery, mark_as_sold, direct call of
\* create_or_update_product, deactivate_product or create_checkout_session,
\* or run of the sync command makes a remote call; the post-save hook of a
\* save calls neither create_or_update_product nor deactivate_product
C20_UnconfiguredNoRemoteCall ==
    ~settings.STRIPE_SECRET_KEY =>
        /\ stripeProducts = <<>>
        /\ stripePrices = <<>>
        /\ stripeSessions = <<>>
        /\ \A r \in Operations :
            /\ r.c.nr = 0
            /\ r.c.sp = <<>> /\ r.c.pr = <<>> /\ r.c.ss = <<>>
            /\ r.op \in {"create", "edit"} => (r.c.ncou = 0 /\ r.c.ndeact = 0)

\* C20: with the key unconfigured an ACTIVE product carrying remote ids is
\* saved, deactivated, synced and sold, and no call reaches the provider
C20_Witness ==
    /\ ~settings.STRIPE_SECRET_KEY
    /\ settings.STRIPE_WEBHOOK_SECRET
    /\ db.exists
    /\ db.status = ACTIVE
    /\ \E i \in WithRemoteIds(FromDb(db)) :
        /\ i.stripe_product_id # Empty
        /\ \E r \in OperationsOn(i) :
            r.op = "edit" /\ r.i.status = INACTIVE /\ r.c.db.status = INACTIVE
                /\ r.c.nr = 0
        /\ \E r \in OperationsOn(i) :
            r.op = "deactivate" /\ r.c.ndeact = 1 /\ ~r.c.success /\ r.c.nr = 0
        /\ \E r \in OperationsOn(i) :
            r.op = "call" /\ r.c.cou = "failure" /\ r.c.nr = 0
    /\ \E r \in Deliveries :
        ValidCompleted(r.request) /\ r.c.db.status = SOLD /\ r.c.nr = 0

\* the k-th slug of the sequence base, base-1, base-2, ...
SlugOfSequence(base, k) == IF k = 0 THEN base ELSE Suffixed(base, k)

\* the first slug of the sequence that no product other than pk uses
FirstUnused(base, pk) ==
    SlugOfSequence(base,
        CHOOSE k \in 0..Len(products) :
            /\ ~SlugTaken(products, SlugOfSequence(base, k), pk)
            /\ \A j \in 0..(k - 1) :
                  SlugTaken(products, SlugOfSequence(base, j), pk))

\* the slug the save stored for its product
SlugStored(r) ==
    r.c.table[IF r.pk = NoPk THEN Len(r.c.table) ELSE r.pk].slug

\* C21: a save with an empty slug stores the first slug of the sequence
\* base, base-1, base-2, ... (base the slugified name) that no other product
\* uses; a save of a stored product with its slug stores that slug; and no
\* two stored products share a slug
C21_SlugAssignment ==
    /\ \A r \in SlugSaves :
        /\ r.i.slug = NoSlug =>
              /\ r.c.exc = NoExc
              /\ SlugStored(r) = FirstUnused(slugify(r.i.name), r.pk)
        /\ (r.pk # NoPk /\ r.i.slug = products[r.pk].slug /\ r.i.slug # NoSlug) =>
              /\ r.c.exc = NoExc
              /\ SlugStored(r) = products[r.pk].slug
        /\ (r.i.slug # NoSlug /\ r.c.exc = NoExc) => SlugStored(r) = r.i.slug
    /\ \A j, k \in DOMAIN products :
        (j # k /\ products[j].exists /\ products[k].exists)
            => products[j].slug # products[k].slug

\* C21: two products of one name are stored with the slugs base and base-1,
\* and a third save of the name is given base-2
C21_Witness ==
    /\ \E j, k \in DOMAIN products :
        /\ products[j].exists /\ products[k].exists
        /\ products[j].name = "a" /\ products[k].name = "a"
        /\ products[j].slug = <<"a">>
        /\ products[k].slug = <<"a", "1">>
    /\ \E r \in SlugSaves :
        /\ r.pk = NoPk
        /\ r.i = [name |-> "a", slug |-> NoSlug]
        /\ r.c.exc = NoExc
        /\ SlugStored(r) = <<"a", "2">>

\* C22: the stored `active` is true exactly when the stored status is ACTIVE,
\* after any admin saves, status changes and webhook deliveries
C22_ActiveMirrorsStatus ==
    db.exists => (db.active <=> db.status = ACTIVE)

\* the saves after which the instance carries the bypass flag: the hook's
\* create_or_update_product has written the ids back
FlaggedSaves ==
    {x \in QuietSaves : x.c.exc = NoExc /\ x.c.inst.skip_stripe_sync}

\* a later save of the same in-memory instance, with its status set
LaterSaves ==
    UNION {{Run("edit", i, NoRequest,
                ProductSave([Again(x.c, NoFaults) EXCEPT !.inst = i,
                                                         !.ndeact = 0], {})) :
              i \in StatusEdited(x.c.inst)} : x \in FlaggedSaves}

\* C23: the bypass flag holds for the one write it was set for: a later save
\* of the same instance, the provider configured, is synchronized by the
\* status policy again (create_or_update_product when it leaves the product
\* ACTIVE, deactivate_product when it leaves an ACTIVE product INACTIVE)
C23_BypassFlagTransient ==
    \A r \in LaterSaves :
        (settings.STRIPE_SECRET_KEY /\ r.c.exc = NoExc) =>
            /\ r.i.status = ACTIVE => r.c.ncou = 1
            /\ r.i.status = INACTIVE => r.c.ndeact = 1

\* the instance names a remote Product, and a remote Price that the provider
\* does not know
LookupFails(i) ==
    /\ i.stripe_product_id \in DOMAIN stripeProducts
    /\ i.stripe_price_id \notin DOMAIN stripePrices

\* C24: when the lookup of the stored remote Price fails with an
\* InvalidRequestError and no other call fails, create_or_update_product
\* creates one replacement Price with the amount of the price, stores its id
\* in the instance and in the row in place of the old one, and returns
\* success=true
C24_LookupFailureReplaced ==
    \A r \in QuietSaves \cup Syncs({NoFaults}) \cup DirectCalls({NoFaults}) :
        (r.c.ncou = 1 /\ settings.STRIPE_SECRET_KEY /\ LookupFails(r.i)) =>
            /\ r.c.nrecovered = 1
            /\ r.c.newPrices = 1
            /\ r.c.cou = "success"
            /\ r.c.success
            /\ r.c.inst.stripe_price_id = Len(r.c.pr)
            /\ r.c.inst.stripe_price_id # r.i.stripe_price_id
            /\ r.c.db.stripe_price_id = r.c.inst.stripe_price_id
            /\ r.c.pr[Len(r.c.pr)] =
                  [product |-> r.i.stripe_product_id,
                   unit_amount |-> _price_to_grosze(r.i.price),
                   active |-> TRUE]

\* C24: a synced product is saved with a stripe_price_id that the provider
\* does not know, and the call stores the id of a replacement
C24_Witness ==
    /\ Synced
    /\ \E r \in QuietSaves :
        /\ WithinBounds(r.c)
        /\ LookupFails(r.i)
        /\ r.c.nrecovered = 1
        /\ r.c.cou = "success"
        /\ r.c.db.stripe_price_id = Len(stripePrices) + 1

\* C25: a webhook request that is not a validly signed
\* checkout.session.completed event of a stored product leaves the row and
\* the provider's objects as they were and makes no remote call and no
\* write; a validly signed checkout.session.expired event, or event of
\* another type, is answered 200
C25_OtherRequestsChangeNothing ==
    \A r \in Deliveries :
        ~ValidCompleted(r.request) =>
            /\ ChangesNothing(r)
            /\ r.c.nr = 0
            /\ r.c.nd = 0
            /\ r.c.now = now
            /\ (/\ settings.STRIPE_WEBHOOK_SECRET
                /\ r.request.sig = "valid"
                /\ r.request.type \in {"checkout.session.expired",
                                        "customer.created"}) => r.c.ret = 200

\* C25: with a buyable product stored, a validly signed expired event and an
\* event of another type are delivered and answered 200
C25_Witness ==
    /\ settings.STRIPE_WEBHOOK_SECRET
    /\ db.exists
    /\ db.status = ACTIVE
    /\ db.stripe_product_id \in DOMAIN stripeProducts
    /\ \A t \in {"checkout.session.expired", "customer.created"} :
         \E r \in Deliveries :
            /\ r.request.sig = "valid"
            /\ r.request.type = t
            /\ r.c.ret = 200
            /\ r.c.db = db
            /\ r.c.sp = stripeProducts

\* the stored stripe_price_id of the row, when not empty, names a remote
\* Price that exists and is active
StoredPriceLive(row, prices) ==
    (row.exists /\ row.stripe_price_id # Empty) =>
        /\ row.stripe_price_id \in DOMAIN prices
        /\ prices[row.stripe_price_id].active

\* C26: a call of create_or_update_product on the product as stored, whose
\* stripe_price_id names an active remote Price, leaves the stored
\* stripe_price_id naming an active remote Price, whichever remote call fails
C26_StoredPriceStaysLive ==
    \A r \in Calls :
        (/\ Synced
         /\ StoredPriceLive(db, stripePrices)
         /\ r.i.stripe_product_id = db.stripe_product_id
         /\ r.i.stripe_price_id = db.stripe_price_id) =>
            StoredPriceLive(r.c.db, r.c.pr)

\* the remote Products whose metadata names the local product
RemoteProductsOf(sp, pk) == {k \in DOMAIN sp : sp[k].wagtail_id = pk}

\* C27: after a call of create_or_update_product on a freshly loaded
\* instance, by a save or by the sync command, whichever remote call failed
\* in this call or in the calls before, at most one remote Product names the
\* local product
C27_OneRemoteProduct ==
    \A r \in Calls :
        r.c.db.exists =>
            Cardinality(RemoteProductsOf(r.c.sp, r.c.db.pk)) <= 1

\* C28: after a save by the admin, or a mark_as_sold by the webhook, of a
\* product that names a remote Product, the provider configured and no call
\* or write failing, the remote Product is active exactly when the stored
\* status is ACTIVE
C28_RemoteActiveMirrorsStatus ==
    \A r \in StatusSaves \cup {d \in Deliveries : ValidCompleted(d.request)} :
        (/\ settings.STRIPE_SECRET_KEY
         /\ r.i.stripe_product_id \in DOMAIN stripeProducts
         /\ r.c.exc = NoExc
         /\ r.c.nfailed = 0
         /\ ~r.c.dbfailed) =>
            (r.c.sp[r.i.stripe_product_id].active <=> r.c.db.status = ACTIVE)

\* the checkout Sessions of the product whose completed event the webhook
\* has answered 200
SessionsReconciled(pk) ==
    {k \in DOMAIN stripeSessions :
        /\ stripeSessions[k].product_id = pk
        /\ stripeSessions[k].status = "delivered"}

\* C29: a product is sold at most once: of the checkout Sessions created for
\* it, at most one is paid and has its checkout.session.completed event
\* answered 200 by the webhook
C29_SoldAtMostOnce ==
    db.exists => Cardinality(SessionsReconciled(db.pk)) <= 1

\* the deliveries that mark the stored ACTIVE product as sold
SalesOfActive ==
    {d \in Deliveries :
        /\ ValidCompleted(d.request)
        /\ db.status = ACTIVE
        /\ d.c.ret = 200
        /\ d.c.db.status = SOLD}

\* the admin's save of an instance loaded while the product was ACTIVE, its
\* status left as loaded, after the delivery that marks the product as sold
StaleSaves ==
    UNION {{Run("edit", i, NoRequest,
                ProductSave([Again(d.c, NoFaults) EXCEPT !.inst = i], {})) :
              i \in {j \in Edited(FromDb(db)) : j.status = ACTIVE}} :
             d \in SalesOfActive}

\* C30: a product marked SOLD by the webhook stays SOLD: after the save of an
\* instance that the admin loaded while the product was ACTIVE, the stored
\* status is SOLD and the remote Product is not active
C30_SoldSurvivesStaleSave ==
    \A r \in StaleSaves :
        r.c.exc = NoExc =>
            /\ r.c.db.status = SOLD
            /\ r.i.stripe_product_id \in DOMAIN r.c.sp =>
                    ~r.c.sp[r.i.stripe_product_id].active

====
